---- MODULE Spec2Model ----
(***************************************************************************)
(* Annotation & interaction state engine of the PDF annotation editor      *)
(* (src/App.tsx): the undo/redo history of annotation snapshots, the tool  *)
(* state (edit mode, active tool, shape, tool properties) and the          *)
(* keyboard dispatcher.                                                    *)
(*                                                                         *)
(* React state is modelled by one variable per useState cell.  A handler   *)
(* reads the values captured by the closure of the render it was created   *)
(* in (variable rendered); a functional updater (prev => ...) reads the    *)
(* state cell itself.  Every event of the specifications below ends with   *)
(* the re-render React performs before the next event is dispatched.       *)
(*                                                                         *)
(* historyStep is 0-based as in the source; TLA+ sequences are 1-based, so *)
(* history[historyStep] of the source is history[historyStep + 1] here.    *)
(* scale is kept in thousandths (1.0 = 1000).                              *)
(***************************************************************************)
EXTENDS Integers, Sequences, FiniteSets

VARIABLES
    history,        \* useState<Annotation[][]>([[]])
    historyStep,    \* useState(0)
    isEditMode,     \* useState(false)
    activeTool,     \* useState<ToolType>(ToolType.PAN)
    activeShape,    \* useState<ShapeType>(ShapeType.RECTANGLE)
    toolProperties, \* useState<ToolProperties>({...})
    scale,          \* useState(1.0), in thousandths
    pdfFile,        \* useState<File | null>(null)
    currentPage,    \* useState(1)
    isPanDragging,  \* useState(false)
    rendered,       \* values captured by the handlers' closures at the last render
    committed,      \* history variable: every value ever passed to setHistory by a commit
    lastOp,         \* history variable: the engine operation the last event performed
    lastArg,        \* history variable: the annotation set or file that operation was given
    lastEv,         \* history variable: the key event of the last event, if it was one
    pre             \* history variable: the state the last event started from

histVars == <<history, historyStep>>
toolVars == <<isEditMode, activeTool, activeShape, toolProperties>>
viewVars == <<scale, pdfFile, currentPage, isPanDragging>>
vars == <<history, historyStep, isEditMode, activeTool, activeShape, toolProperties,
          scale, pdfFile, currentPage, isPanDragging, rendered, committed, lastOp, lastArg, lastEv, pre>>

(***************************************************************************)
(* Bounds of the model.                                                    *)
(***************************************************************************)
MaxHistory == 3     \* longest snapshot sequence explored

MaxNudge == 1       \* how far ] may raise the line width above its initial value

MaxPage == 2        \* largest page number given to onPageChange

(***************************************************************************)
(* Data.                                                                   *)
(***************************************************************************)
ToolType == {"none", "select", "pan", "pen", "highlight", "eraser", "shape", "text", "magnify"}

ShapeType == {"rectangle", "circle", "line", "arrow"}

\* Annotation[] values a commit can produce; annotations are named by their id.
EmptySet == << >>

AnnotationSets == {EmptySet, <<"A">>, <<"A", "B">>, <<"A", "C">>}

Files == {"pdf1", "txt"}

FileType(f) == IF f = "txt" THEN "text/plain" ELSE "application/pdf"

MinLineWidth == 1

MaxLineWidth == 100

MinScale == 250

MaxScale == 4000

ScaleStep == 100

Min(a, b) == IF a < b THEN a ELSE b

Max(a, b) == IF a > b THEN a ELSE b

\* history[historyStep] of the source
currentAnnotations(h, s) == h[s + 1]

\* Array.prototype.slice(0, n)
Slice(h, n) == SubSeq(h, 1, Min(n, Len(h)))

(***************************************************************************)
(* Keyboard events: the fields of KeyboardEvent that handleKeyDown reads.  *)
(* inText stands for e.target instanceof HTMLInputElement ||               *)
(* HTMLTextAreaElement.                                                    *)
(***************************************************************************)
ToolKeys == {"v", "p", "h", "e", "t", "r", "c", "l", "a"}

WidthKeys == {"[", "]"}

ToLower(k) ==
    CASE k = "M" -> "m"
      [] k = "V" -> "v"
      [] k = "Z" -> "z"
      [] OTHER -> k

KeyEvent(K) == [key : K, ctrlKey : BOOLEAN, metaKey : BOOLEAN, shiftKey : BOOLEAN, inText : BOOLEAN]

\* lastEv when the last event was no key event
NoEvent == [key |-> "-", ctrlKey |-> FALSE, metaKey |-> FALSE, shiftKey |-> FALSE, inText |-> FALSE]

\* events offered to the undo/redo chords' specification
ChordEvents == KeyEvent({"z", "Z", "y"})

\* events offered to the tool state machine's specification; shift is held exactly
\* when the key is reported in upper case
ToolEvents ==
    {e \in KeyEvent(ToolKeys \cup WidthKeys \cup {"m", "M", "V", "x"}) :
        e.shiftKey = (e.key \in {"M", "V"})}

\* events offered to the line width's specification
WidthEvents == {e \in KeyEvent(WidthKeys) : ~e.shiftKey}

\* events offered to the frame specification: tool and width keys, unmodified,
\* outside text fields
FrameEvents ==
    {e \in KeyEvent({"p", "c", "[", "]"}) :
        ~e.ctrlKey /\ ~e.metaKey /\ ~e.shiftKey /\ ~e.inText}

\* events offered to the dispatcher's specification: one key of every rule, with
\* and without ctrl, inside and outside text fields, and z with shift
DispatchEvents ==
    {e \in KeyEvent({"z", "y", "=", "-", "m", "a", "["}) :
        ~e.metaKey /\ (e.shiftKey => e.key = "z")}

\* events offered to the cursor's specification: magnify, select, pen and text,
\* unmodified
CursorEvents ==
    {e \in KeyEvent({"m", "v", "p", "t"}) : ~e.ctrlKey /\ ~e.metaKey /\ ~e.shiftKey}

\* events offered to the zoom's specification; + is reported with shift held
ZoomEvents == {e \in KeyEvent({"=", "+", "-"}) : e.shiftKey = (e.key = "+")}

\* wheel events: the fields of WheelEvent that handleWheel reads; deltaY in the unit
\* that moves the scale by one thousandth
DeltaYs == {-5000, -125, 125, 5000}

WheelEvents == [deltaY : DeltaYs, ctrlKey : BOOLEAN, metaKey : BOOLEAN]

(***************************************************************************)
(* Initial state: the useState initialisers.                               *)
(***************************************************************************)
Snapshot(h, s, em, at) == [history |-> h, historyStep |-> s, isEditMode |-> em, activeTool |-> at]

\* the handlers' closures are older than the state cells: an earlier handler has
\* set a cell and the component has not rendered since
Stale == rendered # Snapshot(history, historyStep, isEditMode, activeTool)

\* what pre keeps: the state an event starts from, whether the event before it
\* was an undo or a redo, and, when the event runs on stale closures, the request
\* handled before it against the same render
PreOf(op) ==
    [nav |-> IF op \in {"undo", "redo"} THEN op ELSE "-",
     batch |-> IF Stale THEN [op |-> op, arg |-> lastArg] ELSE [op |-> "-", arg |-> "-"],
     history |-> history, historyStep |-> historyStep,
     isEditMode |-> isEditMode, activeTool |-> activeTool, activeShape |-> activeShape,
     toolProperties |-> toolProperties, scale |-> scale]

Init ==
    /\ history = << EmptySet >>
    /\ historyStep = 0
    /\ isEditMode = FALSE
    /\ activeTool = "pan"
    /\ activeShape = "rectangle"
    /\ toolProperties = [color |-> "#ef4444", lineWidth |-> 2, opacity |-> 1,
                         fontFamily |-> "Inter", fontSize |-> 16]
    /\ scale = 1000
    /\ pdfFile = "null"
    /\ currentPage = 1
    /\ isPanDragging = FALSE
    /\ rendered = Snapshot(history, historyStep, isEditMode, activeTool)
    /\ committed = {}
    /\ lastOp = "init"
    /\ lastArg = "-"
    /\ lastEv = NoEvent
    /\ pre = PreOf("init")

(***************************************************************************)
(* Handlers.  Each sets the state cells its code sets (setX calls) and     *)
(* leaves the rest of its own group unchanged.                             *)
(***************************************************************************)
\* the render that follows an event
Render == rendered' = Snapshot(history', historyStep', isEditMode', activeTool')

\* the bookkeeping of the history variables
Log(op, arg) == lastOp' = op /\ lastArg' = arg /\ lastEv' = NoEvent /\ pre' = PreOf(lastOp)

LogKey(op, e) == lastOp' = op /\ lastArg' = "-" /\ lastEv' = e /\ pre' = PreOf(lastOp)

handleAnnotationsChange_merge(newAnnotations) ==
    LET newHistory == Append(Slice(rendered.history, rendered.historyStep + 1),
                             currentAnnotations(rendered.history, rendered.historyStep)
                                 \o newAnnotations)
    IN  /\ history' = newHistory
        /\ historyStep' = Len(newHistory) - 1

handleAnnotationsChange_noTruncate(newAnnotations) ==
    LET newHistory == Append(rendered.history, newAnnotations)
    IN  /\ history' = newHistory
        /\ historyStep' = Len(newHistory) - 1

handleAnnotationsChange(newAnnotations) ==
    LET newHistory == Append(Slice(rendered.history, rendered.historyStep + 1), newAnnotations)
    IN  /\ history' = newHistory
        /\ historyStep' = Len(newHistory) - 1

handleUndo_noGuard ==
    /\ historyStep' = historyStep - 1
    /\ history' = history

handleUndo ==
    /\ historyStep' = IF rendered.historyStep > 0 THEN historyStep - 1 ELSE historyStep
    /\ history' = history

handleRedo_toTail ==
    /\ historyStep' = Len(rendered.history) - 1
    /\ history' = history

handleRedo_offByOne ==
    /\ historyStep' = IF rendered.historyStep <= Len(rendered.history) - 1
                      THEN historyStep + 1 ELSE historyStep
    /\ history' = history

handleRedo ==
    /\ historyStep' = IF rendered.historyStep < Len(rendered.history) - 1
                      THEN historyStep + 1 ELSE historyStep
    /\ history' = history

handleClearAnnotations_reset(confirm) ==
    IF confirm THEN history' = << EmptySet >> /\ historyStep' = 0 ELSE UNCHANGED histVars

handleClearAnnotations(confirm) ==
    IF confirm THEN handleAnnotationsChange(EmptySet) ELSE UNCHANGED histVars

loadFile_keepStep(file) ==
    IF FileType(file) = "application/pdf"
    THEN /\ pdfFile' = file
         /\ currentPage' = 1
         /\ history' = << EmptySet >>
         /\ historyStep' = historyStep
         /\ UNCHANGED toolVars
    ELSE UNCHANGED <<pdfFile, currentPage, history, historyStep, toolVars>>

loadFile_anyType(file) ==
    /\ pdfFile' = file
    /\ currentPage' = 1
    /\ history' = << EmptySet >>
    /\ historyStep' = 0
    /\ UNCHANGED toolVars

loadFile_resetsTool(file) ==
    IF FileType(file) = "application/pdf"
    THEN /\ pdfFile' = file
         /\ currentPage' = 1
         /\ history' = << EmptySet >>
         /\ historyStep' = 0
         /\ activeTool' = "pan"
         /\ UNCHANGED <<isEditMode, activeShape, toolProperties>>
    ELSE UNCHANGED <<pdfFile, currentPage, history, historyStep, toolVars>>

loadFile(file) ==
    IF FileType(file) = "application/pdf"
    THEN /\ pdfFile' = file
         /\ currentPage' = 1
         /\ history' = << EmptySet >>
         /\ historyStep' = 0
         /\ UNCHANGED toolVars
    ELSE UNCHANGED <<pdfFile, currentPage, history, historyStep, toolVars>>

\* the toggle flips the flag and leaves the tool as it is
toggleEditMode_keepsTool ==
    /\ isEditMode' = ~rendered.isEditMode
    /\ activeTool' = activeTool
    /\ UNCHANGED <<activeShape, toolProperties>>

toggleEditMode ==
    /\ isEditMode' = ~rendered.isEditMode
    /\ activeTool' = IF rendered.isEditMode THEN "select" ELSE "pan"
    /\ UNCHANGED <<activeShape, toolProperties>>

setActiveTool(tool) ==
    /\ activeTool' = tool
    /\ UNCHANGED <<isEditMode, activeShape, toolProperties>>

(***************************************************************************)
(* The keyboard dispatcher.                                                *)
(***************************************************************************)
primary_ctrlOnly(e) == e.ctrlKey

\* e.ctrlKey || e.metaKey
primary(e) == e.ctrlKey \/ e.metaKey

isTextTarget_never(e) == FALSE

\* e.target instanceof HTMLInputElement || e.target instanceof HTMLTextAreaElement
isTextTarget(e) == e.inText

magnifyToggle_alwaysPan(prev) == IF prev = "magnify" THEN "pan" ELSE "magnify"

\* the updater given to setActiveTool by the m shortcut
magnifyToggle(prev) ==
    IF prev = "magnify" THEN (IF rendered.isEditMode THEN "select" ELSE "pan") ELSE "magnify"

\* the updaters given to setScale by the zoom chords
zoomIn(s) == Min(MaxScale, s + ScaleStep)

zoomOut(s) == Max(MinScale, s - ScaleStep)

decLineWidth(prev) == [prev EXCEPT !.lineWidth = Max(MinLineWidth, prev.lineWidth - 1)]

incLineWidth_noClamp(prev) == [prev EXCEPT !.lineWidth = prev.lineWidth + 1]

\* the updaters given to setToolProperties by the [ and ] shortcuts
incLineWidth(prev) == [prev EXCEPT !.lineWidth = Min(MaxLineWidth, prev.lineWidth + 1)]

ToolOfKey(k) ==
    CASE k = "v" -> "select"
      [] k = "p" -> "pen"
      [] k = "h" -> "highlight"
      [] k = "e" -> "eraser"
      [] k = "t" -> "text"
      [] k \in {"r", "c", "l", "a"} -> "shape"

ShapeOfKey(k) ==
    CASE k = "r" -> "rectangle"
      [] k = "c" -> "circle"
      [] k = "l" -> "line"
      [] k = "a" -> "arrow"
      [] OTHER -> activeShape

\* the cursor class derived from the active tool and the pan drag
cursorClass(tool, dragging) ==
    IF tool = "magnify" THEN "cursor-none"
    ELSE IF dragging THEN "cursor-grabbing-theme"
    ELSE CASE tool = "pan" -> "cursor-grab-theme"
           [] tool = "select" -> "cursor-default-theme"
           [] tool = "text" -> "cursor-text-tool-theme"
           [] tool = "eraser" -> "cursor-eraser-theme"
           [] tool \in {"pen", "highlight", "shape"} -> "cursor-crosshair-theme"
           [] OTHER -> "cursor-default-theme"

onMouseDown == isPanDragging' = IF rendered.activeTool = "pan" THEN TRUE ELSE isPanDragging

onMouseUp == isPanDragging' = FALSE

\* case a without its break: control falls into case [
switchOnKey_fallThrough(e) ==
    IF ToLower(e.key) \in ToolKeys THEN
        /\ activeTool' = ToolOfKey(ToLower(e.key))
        /\ activeShape' = ShapeOfKey(ToLower(e.key))
        /\ toolProperties' = IF ToLower(e.key) = "a" THEN decLineWidth(toolProperties)
                              ELSE toolProperties
        /\ LogKey("toolKey", e)
    ELSE IF ToLower(e.key) = "[" THEN
        /\ toolProperties' = decLineWidth(toolProperties) /\ LogKey("widthKey", e)
        /\ UNCHANGED <<activeTool, activeShape>>
    ELSE IF ToLower(e.key) = "]" THEN
        /\ toolProperties' = incLineWidth(toolProperties) /\ LogKey("widthKey", e)
        /\ UNCHANGED <<activeTool, activeShape>>
    ELSE
        /\ LogKey("noCase", e) /\ UNCHANGED <<activeTool, activeShape, toolProperties>>

\* switch (e.key.toLowerCase()), every case ending in break
switchOnKey(e) ==
    IF ToLower(e.key) \in ToolKeys THEN
        /\ activeTool' = ToolOfKey(ToLower(e.key))
        /\ activeShape' = ShapeOfKey(ToLower(e.key))
        /\ toolProperties' = toolProperties
        /\ LogKey("toolKey", e)
    ELSE IF ToLower(e.key) = "[" THEN
        /\ toolProperties' = decLineWidth(toolProperties) /\ LogKey("widthKey", e)
        /\ UNCHANGED <<activeTool, activeShape>>
    ELSE IF ToLower(e.key) = "]" THEN
        /\ toolProperties' = incLineWidth(toolProperties) /\ LogKey("widthKey", e)
        /\ UNCHANGED <<activeTool, activeShape>>
    ELSE
        /\ LogKey("noCase", e) /\ UNCHANGED <<activeTool, activeShape, toolProperties>>

handleKeyDown(e) ==
    IF primary(e) /\ e.key = "z" THEN
        /\ IF e.shiftKey THEN handleRedo /\ LogKey("redo", e)
                         ELSE handleUndo /\ LogKey("undo", e)
        /\ UNCHANGED <<toolVars, scale>>
    ELSE IF primary(e) /\ e.key = "y" THEN
        /\ handleRedo /\ LogKey("redo", e)
        /\ UNCHANGED <<toolVars, scale>>
    ELSE IF primary(e) /\ (e.key = "=" \/ e.key = "+") THEN
        /\ scale' = zoomIn(scale) /\ LogKey("zoomIn", e)
        /\ UNCHANGED <<histVars, toolVars>>
    ELSE IF primary(e) /\ e.key = "-" THEN
        /\ scale' = zoomOut(scale) /\ LogKey("zoomOut", e)
        /\ UNCHANGED <<histVars, toolVars>>
    ELSE IF ToLower(e.key) = "m" /\ ~e.ctrlKey /\ ~e.metaKey /\ ~isTextTarget(e) THEN
        /\ activeTool' = magnifyToggle(activeTool) /\ LogKey("magnify", e)
        /\ UNCHANGED <<histVars, scale, isEditMode, activeShape, toolProperties>>
    ELSE IF ~rendered.isEditMode THEN
        /\ LogKey("gatedEditMode", e) /\ UNCHANGED <<histVars, toolVars, scale>>
    ELSE IF isTextTarget(e) THEN
        /\ LogKey("gatedFocus", e) /\ UNCHANGED <<histVars, toolVars, scale>>
    ELSE
        /\ switchOnKey(e)
        /\ UNCHANGED <<histVars, scale, isEditMode>>

(***************************************************************************)
(* Zoom: the wheel handler and the view presets.                           *)
(***************************************************************************)
handleWheel_wideClamp(e) ==
    IF e.ctrlKey \/ e.metaKey
    THEN scale' = Min(MaxScale + 1000, Max(MinScale, scale + (0 - e.deltaY)))
    ELSE scale' = scale

handleWheel(e) ==
    IF e.ctrlKey \/ e.metaKey
    THEN scale' = Min(MaxScale, Max(MinScale, scale + (0 - e.deltaY)))
    ELSE scale' = scale

\* onFitScreen, onFitWidth (Sidebar) and onResetView (SettingsModal)
FitScreenScale == 800

FitWidthScale == 1200

ResetScale == 1000

(***************************************************************************)
(* Events: one handler call, the history variables, and the re-render.     *)
(***************************************************************************)
Wheel(e) ==
    /\ handleWheel(e)
    /\ Log(IF e.ctrlKey \/ e.metaKey THEN "wheel" ELSE "wheelIgnored", e.deltaY)
    /\ UNCHANGED <<histVars, toolVars, pdfFile, currentPage, isPanDragging, committed>>
    /\ Render

\* the Sidebar, and with it the two fit buttons, is rendered in edit mode only
FitScreen ==
    /\ rendered.isEditMode
    /\ scale' = FitScreenScale
    /\ Log("fitScreen", "-")
    /\ UNCHANGED <<histVars, toolVars, pdfFile, currentPage, isPanDragging, committed>>
    /\ Render

FitWidth ==
    /\ rendered.isEditMode
    /\ scale' = FitWidthScale
    /\ Log("fitWidth", "-")
    /\ UNCHANGED <<histVars, toolVars, pdfFile, currentPage, isPanDragging, committed>>
    /\ Render

ResetView ==
    /\ scale' = ResetScale
    /\ Log("resetView", "-")
    /\ UNCHANGED <<histVars, toolVars, pdfFile, currentPage, isPanDragging, committed>>
    /\ Render

AnnotationsChange(S) ==
    /\ rendered.historyStep + 2 <= MaxHistory
    /\ handleAnnotationsChange(S)
    /\ committed' = committed \cup {S}
    /\ Log("commit", S)
    /\ UNCHANGED <<toolVars, viewVars>>
    /\ Render

Undo ==
    /\ handleUndo
    /\ Log("undo", "-")
    /\ UNCHANGED <<toolVars, viewVars, committed>>
    /\ Render

Redo ==
    /\ handleRedo
    /\ Log("redo", "-")
    /\ UNCHANGED <<toolVars, viewVars, committed>>
    /\ Render

\* a second request handled before the component renders again: the handlers run
\* with the closures of the last render, at most two to a render
AnnotationsChangeBatched(S) ==
    /\ ~(Stale /\ pre.batch.op # "-")
    /\ rendered.historyStep + 2 <= MaxHistory
    /\ handleAnnotationsChange(S)
    /\ committed' = committed \cup {S}
    /\ Log("commit", S)
    /\ UNCHANGED <<toolVars, viewVars, rendered>>

UndoBatched ==
    /\ ~(Stale /\ pre.batch.op # "-")
    /\ handleUndo
    /\ Log("undo", "-")
    /\ UNCHANGED <<toolVars, viewVars, committed, rendered>>

RedoBatched ==
    /\ ~(Stale /\ pre.batch.op # "-")
    /\ handleRedo
    /\ Log("redo", "-")
    /\ UNCHANGED <<toolVars, viewVars, committed, rendered>>

\* the component renders: the closures of the next handlers see the cells
Rerender ==
    /\ Stale
    /\ rendered' = Snapshot(history, historyStep, isEditMode, activeTool)
    /\ UNCHANGED <<histVars, toolVars, viewVars, committed, lastOp, lastArg, lastEv, pre>>

MouseDown ==
    /\ onMouseDown
    /\ Log("mouseDown", "-")
    /\ UNCHANGED <<histVars, toolVars, scale, pdfFile, currentPage, committed>>
    /\ Render

MouseUp ==
    /\ onMouseUp
    /\ Log("mouseUp", "-")
    /\ UNCHANGED <<histVars, toolVars, scale, pdfFile, currentPage, committed>>
    /\ Render

ClearConfirmed ==
    /\ rendered.historyStep + 2 <= MaxHistory
    /\ handleClearAnnotations(TRUE)
    /\ committed' = committed \cup {EmptySet}
    /\ Log("clear", EmptySet)
    /\ UNCHANGED <<toolVars, viewVars>>
    /\ Render

ClearDeclined ==
    /\ handleClearAnnotations(FALSE)
    /\ Log("clearDeclined", "-")
    /\ UNCHANGED <<toolVars, viewVars, committed>>
    /\ Render

LoadFile(file) ==
    /\ loadFile(file)
    /\ Log(IF FileType(file) = "application/pdf" THEN "load" ELSE "loadRejected", file)
    /\ UNCHANGED <<scale, isPanDragging, committed>>
    /\ Render

KeyDown(e) ==
    /\ handleKeyDown(e)
    /\ UNCHANGED <<pdfFile, currentPage, isPanDragging, committed>>
    /\ Render

ToggleEditMode ==
    /\ toggleEditMode
    /\ Log("toggleEditMode", "-")
    /\ UNCHANGED <<histVars, viewVars, committed>>
    /\ Render

\* onPageChange={setCurrentPage}
PageChange(page) ==
    /\ currentPage' = page
    /\ Log("pageChange", "-")
    /\ UNCHANGED <<histVars, toolVars, scale, pdfFile, isPanDragging, committed>>
    /\ Render

SetActiveTool(tool) ==
    /\ setActiveTool(tool)
    /\ Log("setActiveTool", "-")
    /\ UNCHANGED <<histVars, viewVars, committed>>
    /\ Render

(***************************************************************************)
(* Spec: the history engine under every history operation.                 *)
(***************************************************************************)
Next ==
    \/ \E S \in AnnotationSets : AnnotationsChange(S)
    \/ Undo
    \/ Redo
    \/ ClearConfirmed
    \/ ClearDeclined
    \/ \E file \in Files : LoadFile(file)

Spec == Init /\ [][Next]_vars

(***************************************************************************)
(* SpecChords: the history engine under the undo/redo chords, in and out   *)
(* of edit mode.                                                           *)
(***************************************************************************)
NextChords ==
    \/ \E S \in {<<"A">>, <<"A", "B">>} : AnnotationsChange(S)
    \/ \E e \in ChordEvents : KeyDown(e)
    \/ ToggleEditMode

SpecChords == Init /\ [][NextChords]_vars

(***************************************************************************)
(* SpecTools: the tool state machine under every key event, edit-mode      *)
(* toggles and palette clicks.                                             *)
(***************************************************************************)
NextTools ==
    \/ \E e \in ToolEvents :
          /\ e.key = "]" => toolProperties.lineWidth < 2 + MaxNudge
          /\ KeyDown(e)
    \/ ToggleEditMode
    \/ \E tool \in ToolType : SetActiveTool(tool)

SpecTools == Init /\ [][NextTools]_vars

(***************************************************************************)
(* SpecWidth: the line width under the [ and ] shortcuts, in and out of    *)
(* edit mode.                                                              *)
(***************************************************************************)
NextWidth ==
    \/ \E e \in WidthEvents : KeyDown(e)
    \/ ToggleEditMode

SpecWidth == Init /\ [][NextWidth]_vars

(***************************************************************************)
(* SpecZoom: the scale under the zoom chords, the modifier wheel and the   *)
(* view presets.                                                           *)
(***************************************************************************)
NextZoom ==
    \/ \E e \in ZoomEvents : KeyDown(e)
    \/ \E e \in WheelEvents : Wheel(e)
    \/ FitScreen
    \/ FitWidth
    \/ ResetView
    \/ ToggleEditMode

SpecZoom == Init /\ [][NextZoom]_vars

(***************************************************************************)
(* SpecLoad: document loads among commits, undo, page changes, edit-mode   *)
(* toggles and the fit-width preset.                                       *)
(***************************************************************************)
NextLoad ==
    \/ \E file \in Files : LoadFile(file)
    \/ AnnotationsChange(<<"A">>)
    \/ Undo
    \/ \E page \in 1..MaxPage : PageChange(page)
    \/ ToggleEditMode
    \/ FitWidth

SpecLoad == Init /\ [][NextLoad]_vars

(***************************************************************************)
(* SpecFrame: history operations interleaved with tool switches and line   *)
(* width changes.                                                          *)
(***************************************************************************)
NextFrame ==
    \/ AnnotationsChange(<<"A">>)
    \/ Undo
    \/ Redo
    \/ ClearConfirmed
    \/ ClearDeclined
    \/ \E file \in Files : LoadFile(file)
    \/ \E e \in FrameEvents :
          /\ e.key = "]" => toolProperties.lineWidth < 2 + MaxNudge
          /\ KeyDown(e)
    \/ ToggleEditMode
    \/ \E tool \in {"pen", "none"} : SetActiveTool(tool)

SpecFrame == Init /\ [][NextFrame]_vars

(***************************************************************************)
(* SpecKeys: the keyboard dispatcher with every rule able to act: a        *)
(* history to undo, a scale to zoom, tools to switch.                      *)
(***************************************************************************)
NextKeys ==
    \/ \E e \in DispatchEvents :
          /\ e.key = "=" => scale < 1000 + 100 * MaxNudge
          /\ e.key = "-" => scale > 1000 - 100 * MaxNudge
          /\ KeyDown(e)
    \/ AnnotationsChange(<<"A">>)
    \/ ToggleEditMode

SpecKeys == Init /\ [][NextKeys]_vars

(***************************************************************************)
(* SpecBatch: history requests that may be handled in pairs between two    *)
(* renders.                                                                *)
(***************************************************************************)
NextBatch ==
    \/ \E S \in {<<"A">>, <<"A", "B">>} : AnnotationsChangeBatched(S)
    \/ UndoBatched
    \/ RedoBatched
    \/ Rerender

SpecBatch == Init /\ [][NextBatch]_vars

(***************************************************************************)
(* SpecCursor: the mouse button over the viewer, with the keys and the     *)
(* toggle that change the tool while it is held.                           *)
(***************************************************************************)
NextCursor ==
    \/ MouseDown
    \/ MouseUp
    \/ \E e \in CursorEvents : KeyDown(e)
    \/ ToggleEditMode

SpecCursor == Init /\ [][NextCursor]_vars

(***************************************************************************)
(* SpecGate: the tool state machine under key events and edit-mode toggles *)
(* alone.                                                                  *)
(***************************************************************************)
NextGate ==
    \/ \E e \in ToolEvents :
          /\ e.key = "]" => toolProperties.lineWidth < 2 + MaxNudge
          /\ KeyDown(e)
    \/ ToggleEditMode

SpecGate == Init /\ [][NextGate]_vars

(***************************************************************************)
(* Properties of the history engine (checked under Spec).                  *)
(***************************************************************************)
cur == currentAnnotations(history, historyStep)

preCur == currentAnnotations(pre.history, pre.historyStep)

\* C1: the current annotation set history[historyStep] is always the initial empty
\* set or a value that was passed to an earlier commit.
C1_CurrentWasCommitted ==
    /\ historyStep + 1 \in DOMAIN history
    /\ cur \in committed \cup {EmptySet}

\* an undo has brought back a set committed two commits ago
C1_Witness ==
    /\ lastOp = "undo"
    /\ Len(history) = 3 /\ pre.historyStep = 2 /\ historyStep = 1
    /\ cur = <<"A">> /\ history[3] = <<"A", "C">>

\* C2: a commit of S at step k yields old[0..k] followed by S, with step = k+1 =
\* length-1 (everything after k is discarded), and a redo right after it changes
\* nothing.
C2_CommitTruncatesAndAppends ==
    [][ /\ lastOp' = "commit" =>
            /\ history' = Append(SubSeq(history, 1, historyStep + 1), lastArg')
            /\ historyStep' = historyStep + 1
            /\ historyStep' = Len(history') - 1
        /\ (lastOp = "commit" /\ lastOp' = "redo") => UNCHANGED histVars
      ]_vars

\* the scenario's last step: [empty, {A}, {A,B}] at step 1 after an undo, commit {A,C}
C2_Witness ==
    /\ lastOp = "commit" /\ lastArg = <<"A", "C">>
    /\ pre.nav = "undo" /\ pre.historyStep = 1
    /\ pre.history = <<EmptySet, <<"A">>, <<"A", "B">> >>
    /\ history = <<EmptySet, <<"A">>, <<"A", "C">> >>
    /\ historyStep = 2

\* C3: 0 <= historyStep < history.length in every reachable state.
C3_StepInRange ==
    /\ historyStep \in Int
    /\ 0 <= historyStep
    /\ historyStep < Len(history)

\* an undo at step 0 of a history of three snapshots
C3_Witness ==
    /\ lastOp = "undo" /\ pre.historyStep = 0 /\ historyStep = 0 /\ Len(history) = 3

\* C4 as stated: from every reachable state, undo followed directly by redo leaves
\* current() equal to its value before the undo.
C4_RoundTripEverywhere ==
    [][ (lastOp = "undo" /\ lastOp' = "redo") => cur' = preCur ]_vars

\* C4 as amended: from every reachable state with historyStep > 0 (or whose history
\* holds a single snapshot), undo followed directly by redo leaves current() and
\* the step equal to their values before the undo.
C4_RoundTrip ==
    [][ (/\ lastOp = "undo" /\ lastOp' = "redo"
         /\ (pre.historyStep > 0 \/ Len(pre.history) = 1))
        => (cur' = preCur /\ historyStep' = pre.historyStep /\ history' = pre.history) ]_vars

\* a redo right after an undo that had left step 2 for step 1
C4_Witness ==
    /\ lastOp = "redo" /\ pre.nav = "undo"
    /\ pre.historyStep = 1 /\ historyStep = 2
    /\ cur # currentAnnotations(history, 1)

\* C5: undo at step 0 and redo at step length-1 change neither the sequence nor the
\* step; elsewhere undo moves the step by -1 and redo by +1, sequence unchanged.
C5_UndoRedoSteps ==
    /\ lastOp = "undo" =>
          /\ history = pre.history
          /\ historyStep = IF pre.historyStep = 0 THEN 0 ELSE pre.historyStep - 1
    /\ lastOp = "redo" =>
          /\ history = pre.history
          /\ historyStep = IF pre.historyStep = Len(pre.history) - 1
                            THEN pre.historyStep ELSE pre.historyStep + 1

\* a second redo at the tail of a history of three snapshots
C5_Witness ==
    /\ lastOp = "redo" /\ pre.nav = "redo"
    /\ Len(history) = 3 /\ pre.historyStep = 2 /\ historyStep = 2

\* C12: loading a PDF leaves exactly one empty snapshot at step 0, whatever the
\* history was; an undo or redo right after it changes nothing, and current() is
\* the empty set.
C12_LoadResetsHistory ==
    [][ /\ lastOp' = "load" => (history' = << EmptySet >> /\ historyStep' = 0)
        /\ (lastOp = "load" /\ lastOp' \in {"undo", "redo"}) =>
              (UNCHANGED histVars /\ cur' = EmptySet)
      ]_vars

\* a PDF loaded over a history of three snapshots
C12_Witness ==
    /\ lastOp = "load" /\ lastArg = "pdf1"
    /\ Len(pre.history) = 3 /\ pre.historyStep = 1 /\ preCur = <<"A">>
    /\ history = << EmptySet >> /\ historyStep = 0

\* C13: a confirmed clear-all commits the empty set on top of history[0..step]
\* (dropping any redo branch) and one undo right after it restores the set that
\* was current before; a declined clear-all changes neither sequence nor step.
C13_ClearIsUndoableCommit ==
    [][ /\ lastOp' = "clear" =>
            /\ history' = Append(SubSeq(history, 1, historyStep + 1), EmptySet)
            /\ historyStep' = historyStep + 1
        /\ lastOp' = "clearDeclined" => UNCHANGED histVars
        /\ (lastOp = "clear" /\ lastOp' = "undo") =>
            /\ cur' = preCur
            /\ historyStep' = pre.historyStep
      ]_vars

\* a clear-all confirmed at step 1 of three snapshots, right after an undo
C13_Witness ==
    /\ lastOp = "clear" /\ pre.nav = "undo"
    /\ Len(pre.history) = 3 /\ pre.historyStep = 1 /\ preCur = <<"A", "B">>
    /\ history = << EmptySet, <<"A", "B">>, EmptySet >> /\ historyStep = 2

(***************************************************************************)
(* Properties of the document load (checked under SpecLoad).               *)
(***************************************************************************)
\* C14: a load request for a file that is not a PDF changes nothing: history, step,
\* current page, edit mode, tool, shape, tool properties, scale and loaded document
\* are as before.
C14_NonPdfRejected ==
    [][ lastOp' = "loadRejected" => UNCHANGED <<histVars, toolVars, viewVars>> ]_vars

\* a text file offered while page 2 of a PDF is shown, with history and zoom changed
C14_Witness ==
    /\ lastOp = "loadRejected" /\ lastArg = "txt"
    /\ pdfFile = "pdf1" /\ currentPage = 2
    /\ Len(history) = 2 /\ historyStep = 0
    /\ isEditMode /\ scale = 1200

(***************************************************************************)
(* Frame properties (checked under SpecFrame).                             *)
(***************************************************************************)
\* C15: commit, undo, redo, clear-all and document load leave activeTool,
\* activeShape and the tool properties unchanged; tool switches and line width
\* changes leave the history sequence and the step unchanged.
C15_HistoryToolFrame ==
    /\ lastOp \in {"commit", "undo", "redo", "clear", "clearDeclined", "load", "loadRejected"} =>
          /\ activeTool = pre.activeTool
          /\ activeShape = pre.activeShape
          /\ toolProperties = pre.toolProperties
    /\ lastOp \in {"toolKey", "widthKey", "setActiveTool", "toggleEditMode"} =>
          /\ history = pre.history
          /\ historyStep = pre.historyStep

\* a PDF loaded while the circle shape tool is active with a changed line width
C15_Witness ==
    /\ lastOp = "load"
    /\ activeTool = "shape" /\ activeShape = "circle" /\ toolProperties.lineWidth = 3
    /\ Len(pre.history) = 3

(***************************************************************************)
(* Properties of the dispatcher (checked under SpecKeys).                  *)
(***************************************************************************)
\* the operation the precedence order undo/redo, zoom, magnify, gated keys assigns
\* to a key event dispatched with edit mode em
ExpectedOp(e, em) ==
    IF (e.ctrlKey \/ e.metaKey) /\ e.key = "z" THEN (IF e.shiftKey THEN "redo" ELSE "undo")
    ELSE IF (e.ctrlKey \/ e.metaKey) /\ e.key = "y" THEN "redo"
    ELSE IF (e.ctrlKey \/ e.metaKey) /\ e.key \in {"=", "+"} THEN "zoomIn"
    ELSE IF (e.ctrlKey \/ e.metaKey) /\ e.key = "-" THEN "zoomOut"
    ELSE IF ToLower(e.key) = "m" /\ ~e.ctrlKey /\ ~e.metaKey /\ ~e.inText THEN "magnify"
    ELSE IF ~em \/ e.inText THEN "none"
    ELSE IF ToLower(e.key) \in ToolKeys THEN "toolKey"
    ELSE IF ToLower(e.key) \in WidthKeys THEN "widthKey"
    ELSE "none"

PerformedOp ==
    IF lastOp \in {"gatedEditMode", "gatedFocus", "noCase"} THEN "none" ELSE lastOp

HistoryOps == {"commit", "undo", "redo"}

\* C17: two history requests handled against the same render lose no commit: both
\* sets of two commits end in the history in request order with the step at the
\* tail, the set of a commit paired with an undo or redo is in the history, and
\* the step stays within the history.
C17_NoCommitLost ==
    (lastOp \in HistoryOps /\ pre.batch.op \in HistoryOps) =>
        /\ 0 <= historyStep /\ historyStep < Len(history)
        /\ (lastOp = "commit" /\ pre.batch.op = "commit") =>
              /\ Len(history) >= 3
              /\ history[Len(history) - 1] = pre.batch.arg
              /\ history[Len(history)] = lastArg
              /\ historyStep = Len(history) - 1
        /\ (lastOp = "commit" /\ pre.batch.op # "commit") =>
              \E i \in 1..Len(history) : history[i] = lastArg
        /\ (lastOp # "commit" /\ pre.batch.op = "commit") =>
              \E i \in 1..Len(history) : history[i] = pre.batch.arg

(***************************************************************************)
(* Properties of the cursor (checked under SpecCursor).                    *)
(***************************************************************************)
\* C18: the pan drag is on only while the pan tool is active, so the grabbing
\* cursor shows only with the pan tool, and the magnify tool always hides the
\* cursor.
C18_CursorCoherence ==
    /\ isPanDragging => activeTool = "pan"
    /\ cursorClass(activeTool, isPanDragging) = "cursor-grabbing-theme" => activeTool = "pan"
    /\ activeTool = "magnify" => cursorClass(activeTool, isPanDragging) = "cursor-none"

(***************************************************************************)
(* Properties of the edit-mode gate (checked under SpecGate).              *)
(***************************************************************************)
DrawingTools == {"pen", "highlight", "eraser", "shape", "text"}

\* C19: with edit mode off the active tool is never a drawing tool.
C19_NoDrawingToolOutsideEditMode ==
    ~isEditMode => activeTool \notin DrawingTools

\* edit mode was left with the pen active, and the pen key pressed afterwards was
\* gated
C19_Witness ==
    /\ lastOp = "gatedEditMode" /\ lastEv.key = "p" /\ ~lastEv.inText
    /\ ~lastEv.ctrlKey /\ ~lastEv.metaKey
    /\ ~isEditMode /\ activeTool = "select" /\ pre.activeTool = "select"
    /\ toolProperties.lineWidth = 3

\* C20: a key of the tool palette or of the line width pressed with ctrl or cmd
\* held changes neither the tool, the shape nor the line width.
C20_ModifiedKeysIgnored ==
    (/\ lastEv.key # "-"
     /\ lastEv.ctrlKey \/ lastEv.metaKey
     /\ lastEv.key \in ToolKeys \cup WidthKeys) =>
        /\ activeTool = pre.activeTool
        /\ activeShape = pre.activeShape
        /\ toolProperties.lineWidth = pre.toolProperties.lineWidth

C6_ToggleSetsTool ==
    lastOp = "toggleEditMode" => activeTool = (IF isEditMode THEN "select" ELSE "pan")

\* C7: m (no ctrl, no cmd, outside a text field) sets activeTool = magnify when it
\* is not magnify, and otherwise select if edit mode is on and pan if it is off.
C7_MagnifyToggle ==
    (/\ ToLower(lastEv.key) = "m"
     /\ ~lastEv.ctrlKey /\ ~lastEv.metaKey /\ ~lastEv.inText)
    => activeTool = IF pre.activeTool # "magnify" THEN "magnify"
                    ELSE IF pre.isEditMode THEN "select" ELSE "pan"

\* m pressed with magnify active and edit mode off has restored pan
C7_Witness ==
    /\ lastEv.key = "m" /\ ~lastEv.ctrlKey /\ ~lastEv.metaKey /\ ~lastEv.inText
    /\ pre.activeTool = "magnify" /\ ~pre.isEditMode
    /\ activeTool = "pan"

\* C8: a key pressed without ctrl/cmd inside a text field, and any of the keys
\* v p h e t r c l a [ ] pressed with edit mode off, changes neither activeTool nor
\* activeShape nor the tool properties.
C8_ShortcutGating ==
    (\/ lastEv.key # "-" /\ lastEv.inText /\ ~lastEv.ctrlKey /\ ~lastEv.metaKey
     \/ ~pre.isEditMode /\ ToLower(lastEv.key) \in ToolKeys \cup WidthKeys)
    => (/\ activeTool = pre.activeTool
        /\ activeShape = pre.activeShape
        /\ toolProperties = pre.toolProperties)

\* e pressed inside a text field while edit mode is on and the pen is active
C8_Witness ==
    /\ lastEv.key = "e" /\ lastEv.inText /\ ~lastEv.ctrlKey /\ ~lastEv.metaKey
    /\ pre.isEditMode /\ pre.activeTool = "pen" /\ activeTool = "pen"

(***************************************************************************)
(* Properties of the line width (checked under SpecWidth).                 *)
(***************************************************************************)
\* C10: the line width stays within [1, 100]; [ gives max(1, w - 1) and ] gives
\* min(100, w + 1), so [ at 1 leaves 1 and ] at 100 leaves 100.
C10_LineWidthRange ==
    /\ toolProperties.lineWidth \in 1..100
    /\ (lastOp = "widthKey" /\ lastEv.key = "[") =>
          toolProperties.lineWidth =
              (IF pre.toolProperties.lineWidth = 1 THEN 1 ELSE pre.toolProperties.lineWidth - 1)
    /\ (lastOp = "widthKey" /\ lastEv.key = "]") =>
          toolProperties.lineWidth =
              (IF pre.toolProperties.lineWidth = 100 THEN 100
               ELSE pre.toolProperties.lineWidth + 1)

\* ] pressed at line width 100
C10_Witness ==
    /\ lastOp = "widthKey" /\ lastEv.key = "]"
    /\ pre.toolProperties.lineWidth = 100 /\ toolProperties.lineWidth = 100

(***************************************************************************)
(* Properties of the zoom (checked under SpecZoom).                        *)
(***************************************************************************)
\* C11: the scale stays within [0.25, 4.0]; ctrl/cmd with + or = gives
\* min(4.0, s + 0.1), ctrl/cmd with - gives max(0.25, s - 0.1), and a modifier wheel
\* event gives s - deltaY * 0.001 clamped to the same two bounds.
C11_ScaleRange ==
    /\ scale \in 250..4000
    /\ ((lastEv.ctrlKey \/ lastEv.metaKey) /\ lastEv.key \in {"=", "+"}) =>
          scale = (IF pre.scale + 100 > 4000 THEN 4000 ELSE pre.scale + 100)
    /\ ((lastEv.ctrlKey \/ lastEv.metaKey) /\ lastEv.key = "-") =>
          scale = (IF pre.scale - 100 < 250 THEN 250 ELSE pre.scale - 100)
    /\ lastOp = "wheel" =>
          scale = (IF pre.scale - lastArg > 4000 THEN 4000
                   ELSE IF pre.scale - lastArg < 250 THEN 250
                   ELSE pre.scale - lastArg)

\* a wheel event at scale 3.975 that would have passed 4.0
C11_Witness ==
    /\ lastOp = "wheel" /\ lastArg = -125
    /\ pre.scale = 3975 /\ scale = 4000

====
